---- MODULE Spec2Model ----
(***************************************************************************)
(* The bounded repository sampler of the analysis CLI: the walk generator, *)
(* isBinaryByExt, readSample and summarizeRepo.  Strings are sequences of  *)
(* one-character strings; the fixed pieces of the template literals are    *)
(* single tokens.                                                          *)
(***************************************************************************)
EXTENDS Integers, Sequences, FiniteSets, TLC

\* ------------------------------------------------------------------ bounds
MaxFilesBound == 2
MaxCharsBound == 3
MaxFaults == 1

\* ------------------------------------------------- program constants
DefaultMaxFiles == 60

DEFAULT_IGNORES ==
  { <<"n", "o", "d", "e", "_", "m", "o", "d", "u", "l", "e", "s">>,
    <<".", "g", "i", "t">>,
    <<"d", "i", "s", "t">>,
    <<"b", "u", "i", "l", "d">>,
    <<".", "n", "e", "x", "t">>,
    <<".", "t", "u", "r", "b", "o">>,
    <<"c", "o", "v", "e", "r", "a", "g", "e">>,
    <<".", "v", "e", "n", "v">>,
    <<"v", "e", "n", "v">>,
    <<"o", "u", "t">> }

BINARY_EXT ==
  { <<".", "p", "n", "g">>,
    <<".", "j", "p", "g">>,
    <<".", "j", "p", "e", "g">>,
    <<".", "g", "i", "f">>,
    <<".", "w", "e", "b", "p">>,
    <<".", "i", "c", "o">>,
    <<".", "p", "d", "f">>,
    <<".", "z", "i", "p">>,
    <<".", "g", "z">>,
    <<".", "t", "a", "r">>,
    <<".", "r", "a", "r">>,
    <<".", "7", "z">>,
    <<".", "e", "x", "e">>,
    <<".", "d", "l", "l">>,
    <<".", "b", "i", "n">> }

\* ------------------------------------------------- JavaScript strings
Min(a, b) == IF a < b THEN a ELSE b

Max(a, b) == IF a > b THEN a ELSE b

\* String.prototype.slice(start, end), indices 0-based, negatives from the end
Slice(s, start, end) ==
  LET len  == Len(s)
      from == IF start < 0 THEN Max(len + start, 0) ELSE Min(start, len)
      to   == IF end < 0 THEN Max(len + end, 0) ELSE Min(end, len)
  IN  IF from < to THEN SubSeq(s, from + 1, to) ELSE <<>>

\* String.prototype.indexOf(c): 0-based index of the first c, -1 if none
IndexOf(s, c) ==
  IF \E i \in 1..Len(s) : s[i] = c
  THEN (CHOOSE i \in 1..Len(s) : s[i] = c /\ \A j \in 1..(i - 1) : s[j] # c) - 1
  ELSE -1

\* String.prototype.lastIndexOf(c): 0-based index of the last c, -1 if none
LastIndexOf(s, c) ==
  IF \E i \in 1..Len(s) : s[i] = c
  THEN (CHOOSE i \in 1..Len(s) : s[i] = c /\ \A j \in (i + 1)..Len(s) : s[j] # c) - 1
  ELSE -1

UpperCase == <<"A", "B", "C", "D", "E", "F", "G", "H", "I", "J", "K", "L", "M",
               "N", "O", "P", "Q", "R", "S", "T", "U", "V", "W", "X", "Y", "Z">>

LowerCase == <<"a", "b", "c", "d", "e", "f", "g", "h", "i", "j", "k", "l", "m",
               "n", "o", "p", "q", "r", "s", "t", "u", "v", "w", "x", "y", "z">>

\* String.prototype.toLowerCase()
ToLowerCase(s) ==
  [i \in 1..Len(s) |->
     IF \E k \in 1..26 : UpperCase[k] = s[i]
     THEN LowerCase[CHOOSE k \in 1..26 : UpperCase[k] = s[i]]
     ELSE s[i]]

StartsWith(s, p) == Len(p) <= Len(s) /\ SubSeq(s, 1, Len(p)) = p

EndsWith(s, p) == Len(p) <= Len(s) /\ SubSeq(s, Len(s) - Len(p) + 1, Len(s)) = p

\* path.join(current, name) for a normalised absolute current
Join(current, name) ==
  IF EndsWith(current, <<"/">>) THEN current \o name ELSE current \o <<"/">> \o name

\* ------------------------------------------------- the directory tree
N_a      == <<"a", ".", "t", "x", "t">>
N_img    == <<"i", "m", "g", ".", "P", "N", "G">>
N_lib    == <<"l", "i", "b">>
N_b      == <<"b", ".", "t", "s">>
N_sub    == <<"s", "u", "b">>
N_c      == <<"c", ".", "t", "a", "r", ".", "g", "z">>
N_e      == <<"e">>
N_dbin   == <<"d", ".", "b", "i", "n">>
N_readme == <<"R", "E", "A", "D", "M", "E">>
N_sock   == <<"s", "o", "c", "k">>
N_z      == <<"z", ".", "m", "d">>
N_m      == <<"m", ".", "j", "s">>
N_nm     == <<"n", "o", "d", "e", "_", "m", "o", "d", "u", "l", "e", "s">>
N_x      == <<"x", ".", "j", "s">>
N_dist   == <<"d", "i", "s", "t">>
N_out    == <<"o", "u", "t">>

P_w      == <<"/", "w">>
P_a      == Join(P_w, N_a)
P_img    == Join(P_w, N_img)
P_nm     == Join(P_w, N_nm)
P_x      == Join(P_nm, N_x)
P_lib    == Join(P_w, N_lib)
P_b      == Join(P_lib, N_b)
P_sub    == Join(P_lib, N_sub)
P_c      == Join(P_sub, N_c)
P_e      == Join(P_sub, N_e)
P_dbin   == Join(P_w, N_dbin)
P_readme == Join(P_dbin, N_readme)
P_out    == Join(P_dbin, N_out)
P_sock   == Join(P_w, N_sock)
P_z      == Join(P_w, N_z)
P_dist   == Join(P_w, N_dist)
P_m      == Join(P_dist, N_m)

Dir(names) == [kind |-> "dir", entries |-> names, content |-> <<>>]

File(text) == [kind |-> "file", entries |-> <<>>, content |-> text]

Other == [kind |-> "other", entries |-> <<>>, content |-> <<>>]

\* The file system under scan: what readdir, statSync and readFileSync see.
Tree ==
     (P_w      :> Dir(<<N_a, N_nm, N_lib, N_img, N_dbin, N_sock, N_dist, N_z>>))
  @@ (P_a      :> File(<<"h", "e", "l", "l", "o">>))
  @@ (P_img    :> File(<<"x", "x">>))
  @@ (P_nm     :> Dir(<<N_x>>))
  @@ (P_x      :> File(<<"j">>))
  @@ (P_lib    :> Dir(<<N_b, N_sub>>))
  @@ (P_b      :> File(<<"a", "b", "c">>))
  @@ (P_sub    :> Dir(<<N_c, N_e>>))
  @@ (P_c      :> File(<<"z", "z">>))
  @@ (P_e      :> File(<<"h", "i">>))
  @@ (P_dbin   :> Dir(<<N_out, N_readme>>))
  @@ (P_readme :> File(<<"r", "e", "a", "d", "m", "e">>))
  @@ (P_out    :> File(<<"o">>))
  @@ (P_sock   :> Other)
  @@ (P_z      :> File(<<>>))
  @@ (P_dist   :> Dir(<<N_m>>))
  @@ (P_m      :> File(<<"m", "m">>))

Paths == DOMAIN Tree

Roots == {P_w, P_lib, P_dist}

\* The places where a file-system call may fail during a scan.
FaultSites ==
  { <<"readdir", P_lib>>, <<"readdir", P_sub>>,
    <<"stat", P_a>>, <<"stat", P_lib>>,
    <<"read", P_b>> }

\* ------------------------------------------------------------------ state
VARIABLES
  root, maxFiles, maxChars,   \* summarizeRepo(dir, maxFiles, maxChars)
  faults, order,              \* the file system's failures and listing order
  scan, prevSummary,          \* which scan is running, the previous summary
  spc, wpc,                   \* positions of summarizeRepo and of walk
  stack, count, current, dirents, idx,   \* locals of walk
  file,                       \* the value of the last yield
  parts, included, summary,   \* locals and result of summarizeRepo
  yielded, listed, classified, skipped,  \* what walk has done so far
  sampled, readLog, blocks, brokeOut     \* what summarizeRepo has done so far

inputs == <<root, maxFiles, maxChars, faults, order>>

walkVars == <<stack, count, current, dirents, idx>>

sumVars == <<parts, included, summary>>

walkLog == <<yielded, listed, classified, skipped>>

sumLog == <<sampled, readLog, blocks, brokeOut>>

vars == <<inputs, scan, prevSummary, spc, wpc, walkVars, file, sumVars, walkLog, sumLog>>

Reverse(s) == [i \in 1..Len(s) |-> s[Len(s) + 1 - i]]

\* ------------------------------------------------- file-system calls
\* readdir(current): the names of the entries, or a failure
Readdir(dir) ==
  IF dir \in Paths /\ Tree[dir].kind = "dir" /\ <<"readdir", dir>> \notin faults
  THEN [ok |-> TRUE,
        names |-> IF order = "rev" THEN Reverse(Tree[dir].entries) ELSE Tree[dir].entries]
  ELSE [ok |-> FALSE, names |-> <<>>]

\* statSync(full): the kind of the entry, or a failure
StatSync(full) ==
  IF full \in Paths /\ <<"stat", full>> \notin faults
  THEN [ok |-> TRUE, kind |-> Tree[full].kind]
  ELSE [ok |-> FALSE, kind |-> "none"]

\* readFileSync(file).toString("utf8"): the decoded content, or a failure
ReadFileSync(f) ==
  IF f \in Paths /\ Tree[f].kind = "file" /\ <<"read", f>> \notin faults
  THEN [ok |-> TRUE, text |-> Tree[f].content]
  ELSE [ok |-> FALSE, text |-> <<>>]

\* ------------------------------------------------------------------ walk
\* a walk whose counter lives outside the generator and is never reset
WalkNewStaleCount(dir) == [stack |-> <<dir>>, count |-> count]

\* const stack = [dir]; let count = 0;
WalkNew(dir) == [stack |-> <<dir>>, count |-> 0]

\* while (stack.length > 0 && count < opts.maxFiles)
LoopCond(stk, c, m) == Len(stk) > 0 /\ c < m

\* the frontier used as a queue: stack.shift()
PopFront(stk) == [top |-> stk[1], rest |-> Tail(stk)]

\* stack.pop()
Pop(stk) == [top |-> stk[Len(stk)], rest |-> SubSeq(stk, 1, Len(stk) - 1)]

\* a readdir whose failure escapes the generator
ReaddirRethrow(stk, cur) == [stack |-> stk, thrown |-> TRUE]

\* a readdir failure that puts the directory back to try it again
ReaddirRetry(stk, cur) == [stack |-> Append(stk, cur), thrown |-> FALSE]

\* catch { continue; } around readdir
ReaddirCatch(stk, cur) == [stack |-> stk, thrown |-> FALSE]

\* catch { continue; } around statSync
StatCatch(full) == [thrown |-> FALSE]

\* a cap check that lets one file too many through
CapReachedOffByOne(c, m) == c > m

\* the walk without the cap check inside the for loop
CapReachedNever(c, m) == FALSE

\* if (count >= opts.maxFiles) break;
CapReached(c, m) == c >= m

\* the walk without the ignore filter
IsIgnoredNever(name) == FALSE

\* if (DEFAULT_IGNORES.has(name)) continue;
IsIgnored(name) == name \in DEFAULT_IGNORES

\* a yield that forgets to count
CountYieldForgotten(c) == c

\* count++ before the yield
CountYield(c) == c + 1

\* ------------------------------------------------------------- readSample
\* the extension taken from the first "." instead of the last
isBinaryByFirstDot(path) ==
  LET i == IndexOf(path, ".")
  IN  IF i < 0 THEN FALSE
      ELSE ToLowerCase(Slice(path, i, Len(path))) \in BINARY_EXT

isBinaryByExt(path) ==
  LET i == LastIndexOf(path, ".")
  IN  IF i < 0 THEN FALSE
      ELSE ToLowerCase(Slice(path, i, Len(path))) \in BINARY_EXT

\* a truncation that keeps one character too many
TruncateOffByOne(text, n) == Slice(text, 0, n + 1)

\* text.slice(0, maxChars)
Truncate(text, n) == Slice(text, 0, n)

\* catch { return null; } around readFileSync
ReadCatch(f) == [null |-> TRUE, text |-> <<>>, thrown |-> FALSE]

readSample(f, n) ==
  IF isBinaryByExt(f) THEN [null |-> TRUE, text |-> <<>>, thrown |-> FALSE]
  ELSE LET r == ReadFileSync(f)
       IN  IF r.ok THEN [null |-> FALSE, text |-> Truncate(r.text, n), thrown |-> FALSE]
           ELSE ReadCatch(f)

\* ---------------------------------------------------------- summarizeRepo
Header(dir) == <<"Root: ">> \o dir

Sentinel == <<"No readable source files found.">>

RelPath(f, dir) ==
  IF StartsWith(f, dir)
  THEN Slice(f, Len(dir) + (IF EndsWith(dir, <<"/">>) \/ EndsWith(dir, <<"\\">>) THEN 0 ELSE 1),
             Len(f))
  ELSE f

Block(rel, sample) ==
  <<"\n--- BEGIN FILE: ">> \o rel \o <<" ---\n">> \o sample
     \o <<"\n--- END FILE: ">> \o rel \o <<" ---">>

\* the sentinel pushed whatever was included
NeedsSentinelAlways(inc) == TRUE

\* if (included === 0) parts.push(sentinel)
NeedsSentinel(inc) == inc = 0

RECURSIVE JoinNL(_)
\* parts.join("\n")
JoinNL(ps) ==
  IF Len(ps) = 0 THEN <<>>
  ELSE IF Len(ps) = 1 THEN ps[1]
  ELSE ps[1] \o <<"\n">> \o JoinNL(Tail(ps))

\* ------------------------------------------------------------------ Init
MaxFilesChoices == (0..MaxFilesBound) \cup {DefaultMaxFiles}

MaxCharsChoices == 0..MaxCharsBound

FaultChoices == {F \in SUBSET FaultSites : Cardinality(F) <= MaxFaults}

\* The locals of a scan that has not started.
Fresh ==
  /\ spc = "start" /\ wpc = "none"
  /\ stack = <<>> /\ count = 0 /\ current = <<>> /\ dirents = <<>> /\ idx = 0
  /\ file = <<>>
  /\ parts = <<>> /\ included = 0 /\ summary = <<>>
  /\ yielded = <<>> /\ listed = {} /\ classified = {} /\ skipped = {}
  /\ sampled = <<>> /\ readLog = {} /\ blocks = <<>> /\ brokeOut = FALSE

Init ==
  /\ root \in Roots
  /\ maxFiles \in MaxFilesChoices
  /\ maxChars \in MaxCharsChoices
  /\ faults \in FaultChoices
  /\ order \in {"fwd", "rev"}
  /\ scan = 1 /\ prevSummary = <<>>
  /\ Fresh

\* --------------------------------------------------------------- actions
\* summarizeRepo up to the first pull: the header, included = 0, walk(dir, ...)
SummarizeStart ==
  /\ spc = "start"
  /\ parts' = <<Header(root)>>
  /\ included' = 0
  /\ stack' = WalkNew(root).stack
  /\ count' = WalkNew(root).count
  /\ spc' = "await" /\ wpc' = "loop"
  /\ UNCHANGED <<inputs, scan, prevSummary, current, dirents, idx, file, summary,
                 walkLog, sumLog>>

\* walk: the test of the while loop and the pop
WalkLoop ==
  /\ spc = "await" /\ wpc = "loop"
  /\ IF LoopCond(stack, count, maxFiles)
     THEN /\ current' = Pop(stack).top
          /\ stack' = Pop(stack).rest
          /\ dirents' = <<>>
          /\ wpc' = "readdir"
          /\ spc' = spc
     ELSE /\ wpc' = "returned"
          /\ spc' = "finish"
          /\ UNCHANGED <<current, stack, dirents>>
  /\ UNCHANGED <<inputs, scan, prevSummary, count, idx, file, sumVars, walkLog, sumLog>>

\* walk: await readdir(current) in its try/catch
WalkReaddir ==
  /\ spc = "await" /\ wpc = "readdir"
  /\ listed' = listed \cup {current}
  /\ LET r == Readdir(current)
         h == ReaddirCatch(stack, current)
     IN  IF r.ok
         THEN /\ dirents' = r.names /\ idx' = 1 /\ wpc' = "for"
              /\ UNCHANGED <<stack, spc>>
         ELSE IF h.thrown
         THEN /\ wpc' = "threw" /\ spc' = "threw"
              /\ UNCHANGED <<stack, dirents, idx>>
         ELSE /\ stack' = h.stack /\ wpc' = "loop"
              /\ UNCHANGED <<dirents, idx, spc>>
  /\ UNCHANGED <<inputs, scan, prevSummary, count, current, file, sumVars,
                 yielded, classified, skipped, sumLog>>

\* walk: one iteration of for (const name of dirents)
WalkEntry ==
  /\ spc = "await" /\ wpc = "for"
  /\ IF idx > Len(dirents) \/ CapReached(count, maxFiles)
     THEN /\ wpc' = "loop"
          /\ UNCHANGED <<spc, stack, count, idx, file, yielded, classified, skipped>>
     ELSE LET name == dirents[idx]
              full == Join(current, name)
              s    == StatSync(full)
          IN  /\ idx' = idx + 1
              /\ IF IsIgnored(name)
                 THEN /\ skipped' = skipped \cup {full}
                      /\ UNCHANGED <<spc, wpc, stack, count, file, yielded, classified>>
                 ELSE /\ classified' = classified \cup {full}
                      /\ skipped' = skipped
                      /\ IF ~s.ok
                         THEN IF StatCatch(full).thrown
                              THEN /\ wpc' = "threw" /\ spc' = "threw"
                                   /\ UNCHANGED <<stack, count, file, yielded>>
                              ELSE UNCHANGED <<spc, wpc, stack, count, file, yielded>>
                         ELSE IF s.kind = "dir"
                         THEN /\ stack' = Append(stack, full)
                              /\ UNCHANGED <<spc, wpc, count, file, yielded>>
                         ELSE IF s.kind = "file"
                         THEN /\ count' = CountYield(count)
                              /\ file' = full
                              /\ yielded' = Append(yielded, full)
                              /\ spc' = "body"
                              /\ UNCHANGED <<wpc, stack>>
                         ELSE UNCHANGED <<spc, wpc, stack, count, file, yielded>>
  /\ UNCHANGED <<inputs, scan, prevSummary, current, dirents, sumVars, listed, sumLog>>

\* summarizeRepo: the body of for await (const file of walk(...))
Consume ==
  /\ spc = "body"
  /\ IF included >= maxFiles
     THEN /\ brokeOut' = TRUE
          /\ spc' = "finish" /\ wpc' = "returned"
          /\ UNCHANGED <<parts, included, sampled, readLog, blocks>>
     ELSE LET sample == readSample(file, maxChars)
              rel    == RelPath(file, root)
          IN  /\ sampled' = Append(sampled, file)
              /\ readLog' = IF isBinaryByExt(file) THEN readLog ELSE readLog \cup {file}
              /\ brokeOut' = brokeOut
              /\ IF sample.thrown
                 THEN /\ spc' = "threw" /\ wpc' = "threw"
                      /\ UNCHANGED <<parts, included, blocks>>
                 ELSE IF sample.null
                 THEN /\ spc' = "await" /\ wpc' = wpc
                      /\ UNCHANGED <<parts, included, blocks>>
                 ELSE /\ included' = included + 1
                      /\ parts' = Append(parts, Block(rel, sample.text))
                      /\ blocks' = Append(blocks, [file |-> file, rel |-> rel,
                                                   text |-> sample.text])
                      /\ spc' = "await" /\ wpc' = wpc
  /\ UNCHANGED <<inputs, scan, prevSummary, walkVars, file, summary, walkLog>>

\* summarizeRepo: the sentinel and the join, after the loop
Finish ==
  /\ spc = "finish"
  /\ LET final == IF NeedsSentinel(included) THEN Append(parts, Sentinel) ELSE parts
     IN  /\ parts' = final
         /\ summary' = JoinNL(final)
  /\ spc' = "done"
  /\ UNCHANGED <<inputs, scan, prevSummary, wpc, walkVars, file, included, walkLog, sumLog>>

\* a second call of summarizeRepo with the same arguments on the same tree;
\* the locals of the first call are dead and are assigned again by the code
Rescan ==
  /\ spc = "done" /\ scan = 1
  /\ scan' = 2
  /\ prevSummary' = summary
  /\ spc' = "start" /\ wpc' = "none"
  /\ summary' = <<>>
  /\ yielded' = <<>> /\ listed' = {} /\ classified' = {} /\ skipped' = {}
  /\ sampled' = <<>> /\ readLog' = {} /\ blocks' = <<>> /\ brokeOut' = FALSE
  /\ UNCHANGED <<inputs, walkVars, file, parts, included>>

Next ==
  \/ SummarizeStart
  \/ WalkLoop
  \/ WalkReaddir
  \/ WalkEntry
  \/ Consume
  \/ Finish
  \/ Rescan

Spec == Init /\ [][Next]_vars

\* The event loop runs every continuation that is ready.
FairSpec == Init /\ [][Next]_vars /\ WF_vars(Next)

TypeOK ==
  /\ spc \in {"start", "await", "body", "finish", "done", "threw"}
  /\ wpc \in {"none", "loop", "readdir", "for", "returned", "threw"}
  /\ count \in Nat /\ included \in Nat /\ idx \in Nat

\* ------------------------------------------------------------ properties
Range(s) == {s[i] : i \in DOMAIN s}

BlockFiles == {blocks[i].file : i \in DOMAIN blocks}

\* C1: at every point of a scan the number of files yielded by walk and the
\* number of excerpt blocks pushed by summarizeRepo are at most maxFiles, and
\* once the yielded count has reached maxFiles no directory is listed, no
\* entry is classified, no file is yielded and the frontier the walk was
\* created with or has built is left as it is.
C1_Bounded ==
  /\ [](Len(yielded) <= maxFiles /\ Len(blocks) <= maxFiles /\ included <= maxFiles)
  /\ [][(Len(yielded) >= maxFiles /\ spc # "start" /\ scan' = scan)
          => /\ listed' = listed
             /\ classified' = classified
             /\ yielded' = yielded
             /\ stack' = stack]_vars

\* the cap was reached with directories still on the frontier
C1_Witness ==
  /\ spc = "done" /\ maxFiles > 0
  /\ Len(yielded) = maxFiles
  /\ Len(stack) > 0

\* the text a readable file contributes: the first min(|c|, maxChars) characters
Prefix(c, n) == SubSeq(c, 1, Min(Len(c), n))

Readable(f) == <<"read", f>> \notin faults

\* C2: every excerpt of a readable non-binary file is exactly the first
\* min(|c|, maxChars) characters of its content c, so no longer than maxChars,
\* and every sampled readable non-binary file is included, also when
\* maxChars = 0 (with an empty text); the scan never raises.
C2_Truncation ==
  /\ \A i \in DOMAIN blocks :
        /\ blocks[i].text = Prefix(Tree[blocks[i].file].content, maxChars)
        /\ Len(blocks[i].text) <= maxChars
  /\ \A f \in Range(sampled) :
        (Readable(f) /\ ~isBinaryByExt(f)) => f \in BlockFiles
  /\ spc # "threw"

\* maxChars = 3 on "hello" has given "hel"
C2_Witness ==
  /\ maxChars = 3
  /\ \E i \in DOMAIN blocks :
        /\ blocks[i].file = P_a
        /\ Tree[P_a].content = <<"h", "e", "l", "l", "o">>
        /\ blocks[i].text = <<"h", "e", "l">>

RECURSIVE Segments(_)
\* the segments of a path, split at "/"
Segments(p) ==
  IF IndexOf(p, "/") < 0 THEN {p}
  ELSE {SubSeq(p, 1, IndexOf(p, "/"))} \cup Segments(SubSeq(p, IndexOf(p, "/") + 2, Len(p)))

HasIgnoredSegment(p) == Segments(p) \cap DEFAULT_IGNORES # {}

\* the part of a path below the root of the scan
BelowRoot(p) == SubSeq(p, Len(root) + 1, Len(p))

Touched == listed \cup classified \cup Range(yielded) \cup BlockFiles

\* C3 as stated: no path with an ignored basename among its segments is
\* ever listed, classified, yielded or included.
C3_Original == \A p \in Touched : ~HasIgnoredSegment(p)

\* C3: below the root of the scan, no path with an ignored basename among
\* its segments is ever listed, classified, yielded or included; an entry
\* whose name is ignored is skipped without being classified.
C3_IgnoredBelowRoot ==
  /\ \A p \in Touched : StartsWith(p, root) /\ ~HasIgnoredSegment(BelowRoot(p))
  /\ skipped \cap classified = {}

\* an ignored directory and an ignored file have been skipped
C3_Witness ==
  /\ spc = "done" /\ root = P_w
  /\ P_nm \in skipped /\ P_out \in skipped
  /\ blocks # <<>>

\* basename of a path
Basename(p) == SubSeq(p, LastIndexOf(p, "/") + 2, Len(p))

\* the final extension of the basename is in the binary extension set
BinaryBasename(p) ==
  LET b == Basename(p)
  IN  /\ \E i \in 1..Len(b) : b[i] = "."
      /\ ToLowerCase(SubSeq(b, LastIndexOf(b, ".") + 1, Len(b))) \in BINARY_EXT

\* C4: isBinaryByExt(path) is true exactly when the basename has a "." and
\* the lowercased text from its last "." is a binary extension; such a file
\* is never read and never included, and a file without "." in its basename
\* is not binary whatever its parent directories are called.
C4_BinaryByFinalExt ==
  /\ \A p \in Paths \cup Range(sampled) : isBinaryByExt(p) <=> BinaryBasename(p)
  /\ \A f \in Range(sampled) :
        BinaryBasename(f) => f \notin readLog /\ f \notin BlockFiles

\* a file under d.bin without extension was included; img.PNG and c.tar.gz
\* were sampled but never read
C4_Witness ==
  /\ spc = "done"
  /\ P_readme \in BlockFiles
  /\ {P_img, P_c} \subseteq Range(sampled)
  /\ readLog \cap {P_img, P_c} = {}

\* ------------------------------------------- the enumeration, by recursion
EntryPaths(d) ==
  LET names == Readdir(d).names
  IN  [i \in 1..Len(names) |-> Join(d, names[i])]

NotIgnored(p) == Basename(p) \notin DEFAULT_IGNORES

IsRegularFile(p) == NotIgnored(p) /\ StatSync(p).ok /\ StatSync(p).kind = "file"

IsSubdirectory(p) == NotIgnored(p) /\ StatSync(p).ok /\ StatSync(p).kind = "dir"

RECURSIVE Flatten(_)
Flatten(ss) == IF Len(ss) = 0 THEN <<>> ELSE Head(ss) \o Flatten(Tail(ss))

RECURSIVE Enumeration(_)
\* the files of d in listing order, then the enumeration of each subdirectory
\* of d, last listed first
Enumeration(d) ==
  LET entries == EntryPaths(d)
      subdirs == Reverse(SelectSeq(entries, IsSubdirectory))
  IN  SelectSeq(entries, IsRegularFile)
        \o Flatten([i \in 1..Len(subdirs) |-> Enumeration(subdirs[i])])

\* a file readSample returns a text for
Eligible(f) == Readable(f) /\ ~BinaryBasename(f)

Parent(p) == SubSeq(p, 1, LastIndexOf(p, "/"))

\* C5: no failure of a listing, a classification or a read ends the scan
\* with an error; a directory whose listing fails contributes no entry; the
\* finished scan has at most min(N, maxFiles) excerpts, N the number of
\* readable text files reachable outside the failures, and exactly those N
\* files when the cap does not cut the enumeration.
C5_FaultTolerant ==
  /\ spc # "threw" /\ wpc # "threw"
  /\ \A d \in listed :
        ~Readdir(d).ok => \A p \in classified \cup skipped : Parent(p) # d
  /\ spc = "done" =>
        LET enum == Enumeration(root)
            eligible == {f \in Range(enum) : Eligible(f)}
        IN  /\ Len(blocks) <= Min(Cardinality(eligible), maxFiles)
            /\ Len(enum) <= maxFiles => BlockFiles = eligible

\* an unlistable subdirectory was met and contributed nothing, and a file
\* enumerated after it was included
C5_Witness ==
  /\ spc = "done" /\ root = P_w /\ order = "rev"
  /\ faults = {<<"readdir", P_sub>>}
  /\ P_sub \in listed
  /\ {p \in classified : Parent(p) = P_sub} = {}
  /\ P_readme \in BlockFiles

C7_Completes == (spc # "done") ~> (spc = "done")

\* a scan with a failed listing has emptied its frontier and returned
C7_Witness ==
  /\ spc = "done" /\ maxFiles = DefaultMaxFiles
  /\ faults = {<<"readdir", P_lib>>} /\ P_lib \in listed
  /\ stack = <<>> /\ Cardinality(listed) > 1

\* C8: the second scan of the same tree with the same arguments, listing
\* order and failures returns the summary the first scan returned.
C8_SameSummary == (scan = 2 /\ spc = "done") => summary = prevSummary

\* a second scan has returned a summary with excerpts, the cap reached
C8_Witness ==
  /\ scan = 2 /\ spc = "done"
  /\ Len(blocks) > 0 /\ Len(yielded) = maxFiles
  /\ summary = prevSummary

\* position of an entry in the listing of its directory
ListIndex(d, p) == CHOOSE i \in 1..Len(EntryPaths(d)) : EntryPaths(d)[i] = p

Under(d, p) == StartsWith(p, d \o <<"/">>)

\* the entry of d that p is or lies below
ChildToward(d, p) ==
  LET below == SubSeq(p, Len(d) + 2, Len(p))
      cut   == IndexOf(below, "/")
  IN  Join(d, IF cut < 0 THEN below ELSE SubSeq(below, 1, cut))

\* f may be yielded before g, as far as directory d is concerned
OrderedAt(d, f, g) ==
  LET cf == ChildToward(d, f)
      cg == ChildToward(d, g)
  IN  IF cf = cg THEN TRUE
      ELSE IF cf = f /\ cg = g THEN ListIndex(d, f) < ListIndex(d, g)
      ELSE IF cf = f THEN TRUE
      ELSE IF cg = g THEN FALSE
      ELSE ListIndex(d, cf) > ListIndex(d, cg)

Directories == {d \in Paths : Tree[d].kind = "dir"}

\* C9: of two yielded files of a visited directory D, the one listed first
\* is yielded first; a file of D is yielded before every file below a
\* subdirectory of D; files below two subdirectories of D come in the
\* reverse of the subdirectories' listing order, one subtree wholly before
\* the other; and the excerpt blocks follow the header in the order in which
\* their files were yielded.
C9_EnumerationOrder ==
  /\ \A j \in DOMAIN yielded : \A i \in 1..(j - 1) :
        \A d \in Directories :
           (Under(d, yielded[i]) /\ Under(d, yielded[j]))
              => OrderedAt(d, yielded[i], yielded[j])
  /\ \A i, j \in DOMAIN blocks :
        i < j => \E k, l \in DOMAIN yielded :
                    k < l /\ yielded[k] = blocks[i].file /\ yielded[l] = blocks[j].file
  /\ \A i \in DOMAIN blocks :
        i + 1 \in DOMAIN parts /\ parts[i + 1] = Block(blocks[i].rel, blocks[i].text)

\* the whole tree was enumerated: the files of the root, then d.bin (listed
\* after lib), then lib and below it lib/sub
C9_Witness ==
  /\ spc = "done" /\ root = P_w /\ order = "fwd" /\ faults = {}
  /\ yielded = <<P_a, P_img, P_z, P_readme, P_b, P_c, P_e>>
  /\ Len(blocks) = 5

IsPrefix(s, t) == Len(s) <= Len(t) /\ SubSeq(t, 1, Len(s)) = s

\* C10: the cap counts every yielded file: the walk yields a prefix of the
\* enumeration, and when the scan ends exactly its first min(maxFiles, T)
\* files; the excerpt blocks are those yielded files that readSample returns
\* a text for; only yielded files are sampled.
C10_CapCountsYielded ==
  /\ yielded # <<>> => IsPrefix(yielded, Enumeration(root))
  /\ IsPrefix(sampled, yielded)
  /\ count = Len(yielded) \/ spc = "start"
  /\ spc = "done" =>
        /\ Len(yielded) = Min(maxFiles, Len(Enumeration(root)))
        /\ sampled = yielded
        /\ Len(blocks) = Cardinality({i \in DOMAIN yielded : Eligible(yielded[i])})
        /\ BlockFiles = {f \in Range(yielded) : Eligible(f)}

\* the cap cut the enumeration, and a yielded binary file used up a place
C10_Witness ==
  /\ spc = "done" /\ maxFiles = 2
  /\ Len(Enumeration(root)) > 2
  /\ Len(yielded) = 2 /\ Len(blocks) = 1

\* C11: whenever summarizeRepo receives a file from walk, included is below
\* maxFiles and below the number of files yielded so far, so the check
\* if (included >= maxFiles) break is never taken, and the loop is left
\* only because the walk has returned.
C11_BreakNeverTaken ==
  /\ spc = "body" => included < maxFiles /\ included < Len(yielded)
  /\ ~brokeOut
  /\ spc \in {"finish", "done"} => wpc = "returned" /\ sampled = yielded

\* the last file the cap allows was received with every earlier file included
C11_Witness ==
  /\ spc = "body" /\ maxFiles = 2
  /\ Len(yielded) = maxFiles
  /\ included = maxFiles - 1
====
